---- MODULE Spec2Model ----
(***************************************************************************)
(* Model of tests/e2e/lib/ws_client.py: the SessionRecorder, the scripted  *)
(* session driver run_session with its background reader _read_loop, and   *)
(* main.                                                                   *)
(*                                                                         *)
(* Strings that the program computes are sequences of character codes      *)
(* ("T000100" is <<84,48,48,48,49,48,48>>); bytes are sequences of byte    *)
(* values.  Strings that the program only passes around (event types,      *)
(* exception texts) are TLA+ strings.                                      *)
(*                                                                         *)
(* asyncio runs one coroutine at a time: the reader task runs only while   *)
(* run_session is suspended in an await.  The driver's position is pc; the *)
(* reader's actions are guarded by pc being an await point.                *)
(***************************************************************************)
EXTENDS Integers, Sequences, FiniteSets, TLC

VARIABLES
    scenario,       \* the scenario dict loaded by main
    deterministic,  \* E2E_DETERMINISTIC == "1"
    seed,           \* E2E_SEED
    jsonl_path,     \* TRUE when --jsonl names a file
    recorder,       \* the SessionRecorder's fields
    pc,             \* position of main / run_session
    i,              \* index of the step run_session is at (0-based)
    result,         \* run_session's result dict: outcome and errors
    summary,        \* <<>> until recorder.summary() is taken, then <<dict>>
    golden,         \* what the golden file held when it was compared
    exc,            \* exception travelling out of the async-with body, "" if none
    read_task,      \* "none", "running", "closed", "raised", "cancelled"
    conn,           \* "none", "open", "closed" (by the driver), "failed" (lost)
    sent,           \* messages transmitted to the endpoint so far
    recvLog,        \* binary chunks the endpoint has delivered to the reader
    textSeen,       \* number of text messages the reader has received
    elapsed,        \* wall-clock milliseconds spent in sleeps
    exit_code,      \* -1 until main calls sys.exit
    runNo,          \* 1 for the first execution, 2 for the re-execution
    prev,           \* <<>>, or <<what the first execution left behind>>
    other,          \* a second SessionRecorder, fed chunks side by side
    otherLog        \* the chunks passed to the second recorder's record_output

vars == <<scenario, deterministic, seed, jsonl_path, recorder, pc, i, result,
          summary, golden, exc, read_task, conn, sent, recvLog, textSeen,
          elapsed, exit_code, runNo, prev, other, otherLog>>

(***************************************************************************)
(* Bounds of the model.                                                    *)
(***************************************************************************)
MaxSteps == 2
\* messages the endpoint delivers in one execution, binary and text together
MaxMessages == 2
\* chunks passed to each of two recorders that are compared
MaxFeed == 2

(***************************************************************************)
(* Program constants.                                                      *)
(***************************************************************************)
ChainZeroLen == 64
TimeStepMs == 100
DefaultTimeoutS == 30
DefaultCols == 120
DefaultRows == 40
DefaultWaitMs == 100
DrainMs == 500
FinalDrainMs == 300
HashPrefixLen == 16

(***************************************************************************)
(* Text helpers.                                                           *)
(***************************************************************************)
Min(a, b) == IF a < b THEN a ELSE b

\* the character of one digit, lowercase for hexadecimal
DigitChar(d) == IF d < 10 THEN 48 + d ELSE 87 + d

RECURSIVE Digits(_, _)
Digits(n, base) ==
    IF n < base THEN <<DigitChar(n)>>
    ELSE Digits(n \div base, base) \o <<DigitChar(n % base)>>

\* Python's format spec 0{width}: pad with "0" on the left up to width,
\* never truncate
ZeroPad(s, width) ==
    IF Len(s) >= width THEN s
    ELSE [k \in 1..(width - Len(s)) |-> 48] \o s

\* "remote-"
RemotePrefix == <<114, 101, 109, 111, 116, 101, 45>>
\* "sha256:"
ShaPrefix == <<115, 104, 97, 50, 53, 54, 58>>

RECURSIVE Concat(_)
Concat(chunks) ==
    IF chunks = <<>> THEN <<>> ELSE Head(chunks) \o Concat(Tail(chunks))

RECURSIVE SumLen(_)
SumLen(chunks) ==
    IF chunks = <<>> THEN 0 ELSE Len(Head(chunks)) + SumLen(Tail(chunks))

(***************************************************************************)
(* sha256_hex.  SHA-256 is modelled as a collision-free digest: the digest *)
(* of data is data itself between two marks that are no byte and no        *)
(* character (-1 and -2), so that two digests are equal exactly when their *)
(* inputs are, also after concatenation of two digests.                    *)
(***************************************************************************)
sha256_hex(data) == <<-1>> \o data \o <<-2>>

\* h[:n]
Prefix(h, n) == SubSeq(h, 1, Min(n, Len(h)))

\* str.encode() of a string of ASCII characters: one byte per character,
\* the byte's value being the character's code
encode(s) == [k \in 1..Len(s) |-> s[k]]

\* make_run_id
make_run_id(sd) ==
    IF deterministic THEN RemotePrefix \o ZeroPad(Digits(sd, 16), 8)
    ELSE RemotePrefix \o Digits(elapsed, 16)

(***************************************************************************)
(* SessionRecorder                                                         *)
(***************************************************************************)
\* SessionRecorder.__init__
NewRecorder(run_id, scenario_name, path) ==
    [ run_id         |-> run_id,
      scenario_name  |-> scenario_name,
      jsonl_file     |-> IF path THEN "open" ELSE "none",
      jsonl_lines    |-> 0,
      events         |-> <<>>,
      output_chunks  |-> <<>>,
      total_ws_in    |-> 0,
      total_ws_out   |-> 0,
      frame_idx      |-> 0,
      checksum_chain |-> [k \in 1..ChainZeroLen |-> 48] ]

\* _timestamp counting the events emitted so far instead of the frames
_timestamp_by_events(r) ==
    IF deterministic
    THEN <<84>> \o ZeroPad(Digits(Len(r.events) * TimeStepMs, 10), 6)
    ELSE <<87>> \o Digits(elapsed \div 1000, 10)

\* SessionRecorder._timestamp
_timestamp(r) ==
    IF deterministic
    THEN <<84>> \o ZeroPad(Digits(r.frame_idx * TimeStepMs, 10), 6)
    ELSE <<87>> \o Digits(elapsed \div 1000, 10)

\* SessionRecorder.emit
emit(r, event_type, data) ==
    LET event == data @@ [ schema_version |-> "e2e-jsonl-v1",
                           type           |-> event_type,
                           timestamp      |-> _timestamp(r),
                           run_id         |-> r.run_id,
                           seed           |-> seed ]
    IN  [r EXCEPT !.events = Append(@, event),
                  !.jsonl_lines = IF r.jsonl_file = "open" THEN @ + 1 ELSE @]

\* record_output counting one byte per chunk
record_output_counts_one(r, data) ==
    LET chunk_hash == sha256_hex(data)
        chain      == sha256_hex(encode(r.checksum_chain \o chunk_hash))
        r1 == [r EXCEPT !.output_chunks  = Append(@, data),
                        !.total_ws_out   = @ + 1,
                        !.checksum_chain = chain,
                        !.frame_idx      = @ + 1]
    IN  emit(r1, "frame",
             [ frame_idx      |-> r1.frame_idx,
               chunk_bytes    |-> Len(data),
               chunk_hash     |-> ShaPrefix \o Prefix(chunk_hash, HashPrefixLen),
               checksum_chain |-> ShaPrefix \o Prefix(r1.checksum_chain, HashPrefixLen) ])

\* record_output chaining the chunk's digest alone, without the old chain
record_output_forgets_chain(r, data) ==
    LET chunk_hash == sha256_hex(data)
        chain      == sha256_hex(encode(chunk_hash))
        r1 == [r EXCEPT !.output_chunks  = Append(@, data),
                        !.total_ws_out   = @ + Len(data),
                        !.checksum_chain = chain,
                        !.frame_idx      = @ + 1]
    IN  emit(r1, "frame",
             [ frame_idx      |-> r1.frame_idx,
               chunk_bytes    |-> Len(data),
               chunk_hash     |-> ShaPrefix \o Prefix(chunk_hash, HashPrefixLen),
               checksum_chain |-> ShaPrefix \o Prefix(r1.checksum_chain, HashPrefixLen) ])

\* record_output chaining the digest of the whole output received so far
record_output_hashes_output(r, data) ==
    LET chunk_hash == sha256_hex(data)
        chain      == sha256_hex(encode(Concat(Append(r.output_chunks, data))))
        r1 == [r EXCEPT !.output_chunks  = Append(@, data),
                        !.total_ws_out   = @ + Len(data),
                        !.checksum_chain = chain,
                        !.frame_idx      = @ + 1]
    IN  emit(r1, "frame",
             [ frame_idx      |-> r1.frame_idx,
               chunk_bytes    |-> Len(data),
               chunk_hash     |-> ShaPrefix \o Prefix(chunk_hash, HashPrefixLen),
               checksum_chain |-> ShaPrefix \o Prefix(r1.checksum_chain, HashPrefixLen) ])

\* SessionRecorder.record_output
record_output(r, data) ==
    LET chunk_hash == sha256_hex(data)
        chain      == sha256_hex(encode(r.checksum_chain \o chunk_hash))
        r1 == [r EXCEPT !.output_chunks  = Append(@, data),
                        !.total_ws_out   = @ + Len(data),
                        !.checksum_chain = chain,
                        !.frame_idx      = @ + 1]
    IN  emit(r1, "frame",
             [ frame_idx      |-> r1.frame_idx,
               chunk_bytes    |-> Len(data),
               chunk_hash     |-> ShaPrefix \o Prefix(chunk_hash, HashPrefixLen),
               checksum_chain |-> ShaPrefix \o Prefix(r1.checksum_chain, HashPrefixLen) ])

\* record_send counting the chunk as output as well
record_send_counts_output(r, data) ==
    [r EXCEPT !.total_ws_in = @ + Len(data), !.total_ws_out = @ + Len(data)]

\* SessionRecorder.record_send
record_send(r, data) == [r EXCEPT !.total_ws_in = @ + Len(data)]

\* SessionRecorder.full_output
full_output(r) == Concat(r.output_chunks)

\* SessionRecorder.final_checksum
final_checksum(r) == r.checksum_chain

\* SessionRecorder.summary (named summary_of: summary is the driver's local)
summary_of(r) ==
    [ scenario       |-> r.scenario_name,
      ws_in_bytes    |-> r.total_ws_in,
      ws_out_bytes   |-> r.total_ws_out,
      frames         |-> r.frame_idx,
      output_sha256  |-> ShaPrefix \o sha256_hex(full_output(r)),
      checksum_chain |-> ShaPrefix \o r.checksum_chain ]

\* SessionRecorder.close
close(r) ==
    IF r.jsonl_file = "open" THEN [r EXCEPT !.jsonl_file = "closed"] ELSE r

(***************************************************************************)
(* _decode_step_data                                                       *)
(***************************************************************************)
IsHexChar(c) == (c >= 48 /\ c <= 57) \/ (c >= 97 /\ c <= 102) \/ (c >= 65 /\ c <= 70)

HexVal(c) == IF c <= 57 THEN c - 48 ELSE IF c >= 97 THEN c - 87 ELSE c - 55

\* bytes.fromhex raises ValueError on an odd length or a non-hex character
HexOk(s) == Len(s) % 2 = 0 /\ \A k \in 1..Len(s) : IsHexChar(s[k])

\* bytes.fromhex
FromHex(s) == [k \in 1..(Len(s) \div 2) |-> 16 * HexVal(s[2 * k - 1]) + HexVal(s[2 * k])]

\* the value of a character of the base64 alphabet, 64 for the padding "="
B64Val(c) ==
    IF c >= 65 /\ c <= 90 THEN c - 65
    ELSE IF c >= 97 /\ c <= 122 THEN c - 71
    ELSE IF c >= 48 /\ c <= 57 THEN c + 4
    ELSE IF c = 43 THEN 62
    ELSE IF c = 47 THEN 63
    ELSE 64

\* one group of four base64 characters: three bytes, fewer when padded
B64Group(g) ==
    LET v(k) == IF B64Val(g[k]) = 64 THEN 0 ELSE B64Val(g[k])
        n    == ((v(1) * 64 + v(2)) * 64 + v(3)) * 64 + v(4)
        all  == << n \div 65536, (n \div 256) % 256, n % 256 >>
    IN  IF B64Val(g[3]) = 64 THEN SubSeq(all, 1, 1)
        ELSE IF B64Val(g[4]) = 64 THEN SubSeq(all, 1, 2)
        ELSE all

\* base64.b64decode raises binascii.Error when the padding is incorrect
B64Ok(s) == Len(s) % 4 = 0

RECURSIVE B64Decode(_)
B64Decode(s) ==
    IF Len(s) < 4 THEN <<>>
    ELSE B64Group(SubSeq(s, 1, 4)) \o B64Decode(SubSeq(s, 5, Len(s)))

\* TRUE when _decode_step_data(step) raises
DecodeRaises(step) ==
    IF "data_hex" \in DOMAIN step THEN ~HexOk(step.data_hex)
    ELSE IF "data_b64" \in DOMAIN step THEN ~B64Ok(step.data_b64)
    ELSE FALSE

\* _decode_step_data: hex first, then base64, then text, else empty
_decode_step_data(step) ==
    IF "data_hex" \in DOMAIN step THEN FromHex(step.data_hex)
    ELSE IF "data_b64" \in DOMAIN step THEN B64Decode(step.data_b64)
    ELSE IF "data" \in DOMAIN step THEN encode(step.data)
    ELSE <<>>

\* dict.get(key, default)
Get(d, key, default) == IF key \in DOMAIN d THEN d[key] ELSE default

(***************************************************************************)
(* Inputs: scenario files, endpoint output, golden files.                  *)
(***************************************************************************)
\* the steps scenarios are cut from: "a" as hex, a resize after a pause,
\* a long wait, "bc" as base64 after a pause, a drain, an unrecognized type,
\* a send with two encodings ("a" as hex wins over the text "z"), a step
\* without a type
Script ==
    << [type |-> "send", data_hex |-> <<54, 49>>, delay_ms |-> 0],
       [type |-> "resize", cols |-> 80, rows |-> 24, delay_ms |-> 100],
       [type |-> "wait", ms |-> 1500],
       [type |-> "send", data_b64 |-> <<89, 109, 77, 61>>, delay_ms |-> 100],
       [type |-> "drain"],
       [type |-> "noop"],
       [type |-> "send", data_hex |-> <<54, 49>>, data |-> <<122>>],
       [delay_ms |-> 0] >>

\* every run of at most MaxSteps consecutive steps of Script
StepLists ==
    {<<>>} \cup
    { SubSeq(Script, w[1], w[1] + w[2] - 1) :
        w \in { v \in (1..Len(Script)) \X (1..MaxSteps) :
                   v[1] + v[2] - 1 <= Len(Script) } }

WellFormed(st) ==
    [ name |-> "echo", initial_cols |-> 80, initial_rows |-> 24,
      steps |-> st, timeout_s |-> 1 ]

\* scenario files: well-formed ones, one that relies on every default,
\* and malformed ones (no name; a non-positive geometry)
Scenarios ==
    { WellFormed(st) : st \in StepLists } \cup
    { [name |-> "echo", steps |-> st] : st \in {s \in StepLists : Len(s) <= 1} } \cup
    { [initial_cols |-> 80, initial_rows |-> 24, steps |-> st, timeout_s |-> 1] :
        st \in {s \in StepLists : Len(s) <= 1} } \cup
    { [name |-> "echo", initial_cols |-> 0, initial_rows |-> 24,
       steps |-> st, timeout_s |-> 1] : st \in {s \in StepLists : Len(s) <= 1} }

\* what the spec's Scenario Model would reject
Malformed(sc) ==
    \/ "name" \notin DOMAIN sc
    \/ Get(sc, "initial_cols", DefaultCols) <= 0
    \/ Get(sc, "initial_rows", DefaultRows) <= 0
    \/ \E k \in 1..Len(sc.steps) :
          \/ "type" \notin DOMAIN sc.steps[k]
          \/ sc.steps[k].type \notin {"send", "resize", "wait", "drain"}

\* binary chunks the endpoint may deliver
Chunks == { <<97>>, <<98, 99>> }

\* the chunks that may arrive after the chunks got: any chunk, and in a
\* re-execution the chunk the endpoint delivered at this point of the first
NextChunks(got) ==
    IF prev = <<>> THEN Chunks
    ELSE IF Len(got) < Len(prev[1].chunks) THEN {prev[1].chunks[Len(got) + 1]}
    ELSE {}

\* the checksum chain after the chunks cs, by the definition of the chain
RECURSIVE FoldChain(_, _)
FoldChain(chain, cs) ==
    IF cs = <<>> THEN chain
    ELSE FoldChain(sha256_hex(encode(chain \o sha256_hex(Head(cs)))), Tail(cs))

ZeroChain == [k \in 1..ChainZeroLen |-> 48]

\* what the golden file may hold when the summary is s: nothing (no path,
\* or no such file), text that is no JSON, a record with an empty chain, the
\* record of an identical run (with the same or another frame count), the
\* chain of a run that received the one chunk "a", without a frame count.  In a re-execution: nothing,
\* or the summary the first execution printed, saved as the golden record
GoldenFiles(s) ==
    IF prev # <<>>
    THEN { [kind |-> "absent"], [kind |-> "object"] @@ prev[1].summary }
    ELSE
    { [kind |-> "absent"], [kind |-> "malformed"],
      [kind |-> "object", checksum_chain |-> <<>>, frames |-> 0],
      [kind |-> "object", checksum_chain |-> s.checksum_chain, frames |-> s.frames],
      [kind |-> "object", checksum_chain |-> s.checksum_chain, frames |-> s.frames + 1],
      [kind |-> "object", checksum_chain |-> ShaPrefix \o FoldChain(ZeroChain, << <<97>> >>)] }

(***************************************************************************)
(* The state before main has run.  No recorder exists yet: the recorder    *)
(* variable holds a blank one until main constructs it (pc = "main").      *)
(***************************************************************************)
BlankRecorder == NewRecorder(<<>>, "", FALSE)

NoResult == [outcome |-> "none", errors |-> <<>>]

Fresh ==
    /\ recorder = BlankRecorder
    /\ pc = "main"
    /\ i = 0
    /\ result = NoResult
    /\ summary = <<>>
    /\ golden = [kind |-> "absent"]
    /\ exc = ""
    /\ read_task = "none"
    /\ conn = "none"
    /\ sent = <<>>
    /\ recvLog = <<>>
    /\ textSeen = 0
    /\ elapsed = 0
    /\ exit_code = -1

\* no second recorder is in use
NoOther == other = BlankRecorder /\ otherLog = <<>>

\* the environments main is started in: deterministic without an event-log
\* file, wall-clock with one
Environments == { <<TRUE, FALSE>>, <<FALSE, TRUE>> }

Init ==
    /\ scenario \in Scenarios
    /\ \E env \in Environments : deterministic = env[1] /\ jsonl_path = env[2]
    /\ seed \in {42}
    /\ runNo = 1
    /\ prev = <<>>
    /\ NoOther
    /\ Fresh

\* what no step of an execution changes
inputs == <<scenario, deterministic, seed, jsonl_path, runNo, prev, other, otherLog>>

\* an error text, as it is appended to errors and put in the error event
Message(text) == [text |-> text, args |-> <<>>]

\* the steps run_session iterates over
steps == Get(scenario, "steps", <<>>)

(***************************************************************************)
(* main, up to the call of run_session (lines 313-321).  scenario["name"]  *)
(* raises KeyError when the scenario has no name: main ends with a         *)
(* traceback and the interpreter exits with status 1.                      *)
(***************************************************************************)
Main ==
    /\ pc = "main"
    /\ IF "name" \in DOMAIN scenario
       THEN /\ recorder' = NewRecorder(make_run_id(seed), scenario.name, jsonl_path)
            /\ pc' = "start"
            /\ exit_code' = exit_code
       ELSE /\ pc' = "aborted"
            /\ exit_code' = 1
            /\ recorder' = recorder
    /\ UNCHANGED <<inputs, i, result, summary, golden, exc, read_task, conn,
                   sent, recvLog, textSeen, elapsed>>

(***************************************************************************)
(* run_session, lines 160-184: the env and run_start events, the result,   *)
(* and the suspension in websockets.connect.                               *)
(***************************************************************************)
RunStart ==
    /\ pc = "start"
    /\ LET r1 == emit(recorder, "env",
                      [ git_commit   |-> "unknown",
                        git_dirty    |-> FALSE,
                        scenario     |-> scenario.name,
                        initial_cols |-> Get(scenario, "initial_cols", DefaultCols),
                        initial_rows |-> Get(scenario, "initial_rows", DefaultRows) ])
       IN  recorder' = emit(r1, "run_start",
                            [ scenario   |-> scenario.name,
                              step_count |-> Len(steps),
                              timeout_s  |-> Get(scenario, "timeout_s", DefaultTimeoutS) ])
    /\ result' = [outcome |-> "pass", errors |-> <<>>]
    /\ pc' = "connect"
    /\ UNCHANGED <<inputs, i, summary, golden, exc, read_task, conn, sent,
                   recvLog, textSeen, elapsed, exit_code>>

\* the except clause recording the error without failing the run
Handled_keeps_outcome(res, text) ==
    [res EXCEPT !.errors = Append(@, Message(text))]

\* the except clause of run_session (lines 232-235)
Handled(res, text) ==
    [res EXCEPT !.outcome = "fail", !.errors = Append(@, Message(text))]

\* the connection opens; the reader task is created (line 186)
ConnectOk ==
    /\ pc = "connect"
    /\ conn' = "open"
    /\ read_task' = "running"
    /\ i' = 0
    /\ pc' = "loop"
    /\ UNCHANGED <<inputs, recorder, result, summary, golden, exc, sent,
                   recvLog, textSeen, elapsed, exit_code>>

\* websockets.connect raises: the except clause runs
ConnectFail ==
    /\ pc = "connect"
    /\ result' = Handled(result, "connect failed")
    /\ recorder' = emit(recorder, "error", [message |-> Message("connect failed")])
    /\ pc' = "summary"
    /\ UNCHANGED <<inputs, i, summary, golden, exc, read_task, conn, sent,
                   recvLog, textSeen, elapsed, exit_code>>

(***************************************************************************)
(* The step loop (lines 188-222).                                          *)
(***************************************************************************)
\* top of the loop: the next step's type and delay, or the end of the steps
Loop ==
    /\ pc = "loop"
    /\ IF i = Len(steps)
       THEN pc' = "final_drain" /\ exc' = exc
       ELSE LET step == steps[i + 1]
            IN  IF "type" \notin DOMAIN step
                THEN pc' = "closing" /\ exc' = "'type'"
                ELSE /\ exc' = exc
                     /\ pc' = IF Get(step, "delay_ms", 0) > 0 THEN "delay" ELSE "effect"
    /\ UNCHANGED <<inputs, recorder, i, result, summary, golden, read_task,
                   conn, sent, recvLog, textSeen, elapsed, exit_code>>

\* asyncio.sleep(delay_ms / 1000.0) returns
Delay ==
    /\ pc = "delay"
    /\ elapsed' = elapsed + steps[i + 1].delay_ms
    /\ pc' = "effect"
    /\ UNCHANGED <<inputs, recorder, i, result, summary, golden, exc,
                   read_task, conn, sent, recvLog, textSeen, exit_code>>

\* the message a send or resize step transmits
Outgoing(step) ==
    IF step.type = "send"
    THEN [kind |-> "binary", data |-> _decode_step_data(step)]
    ELSE [kind |-> "text", type |-> "resize", cols |-> step.cols, rows |-> step.rows]

\* the step's effect up to its await
Effect ==
    /\ pc = "effect"
    /\ LET step == steps[i + 1]
       IN  CASE step.type = "send" ->
                  IF DecodeRaises(step)
                  THEN pc' = "closing" /\ exc' = "ValueError" /\ i' = i
                  ELSE pc' = "send" /\ exc' = exc /\ i' = i
             [] step.type = "resize" ->
                  IF {"cols", "rows"} \subseteq DOMAIN step
                  THEN pc' = "send" /\ exc' = exc /\ i' = i
                  ELSE pc' = "closing" /\ exc' = "KeyError" /\ i' = i
             [] step.type = "wait" -> pc' = "wait" /\ exc' = exc /\ i' = i
             [] step.type = "drain" -> pc' = "drain" /\ exc' = exc /\ i' = i
             [] OTHER -> pc' = "loop" /\ exc' = exc /\ i' = i + 1
    /\ UNCHANGED <<inputs, recorder, result, summary, golden, read_task, conn,
                   sent, recvLog, textSeen, elapsed, exit_code>>

\* what follows ws.send, logging the frame index in place of the step's
AfterSend_logs_frame(r, step, k) ==
    IF step.type = "send"
    THEN LET data == _decode_step_data(step)
         IN  emit(record_send(r, data), "input",
                  [ step       |-> r.frame_idx,
                    bytes      |-> Len(data),
                    input_hash |-> ShaPrefix \o Prefix(sha256_hex(data), HashPrefixLen) ])
    ELSE emit(r, "resize", [step |-> r.frame_idx,
                            cols |-> step.cols, rows |-> step.rows])

\* ws.send returns: what follows it up to the next iteration
AfterSend(r, step, k) ==
    IF step.type = "send"
    THEN LET data == _decode_step_data(step)
         IN  emit(record_send(r, data), "input",
                  [ step       |-> k,
                    bytes      |-> Len(data),
                    input_hash |-> ShaPrefix \o Prefix(sha256_hex(data), HashPrefixLen) ])
    ELSE emit(r, "resize", [step |-> k, cols |-> step.cols, rows |-> step.rows])

SendDone ==
    /\ pc = "send"
    /\ conn = "open"
    /\ sent' = Append(sent, Outgoing(steps[i + 1]))
    /\ recorder' = AfterSend(recorder, steps[i + 1], i)
    /\ i' = i + 1
    /\ pc' = "loop"
    /\ UNCHANGED <<inputs, result, summary, golden, exc, read_task, conn,
                   recvLog, textSeen, elapsed, exit_code>>

\* ws.send raises ConnectionClosed on a closed connection
SendRaise ==
    /\ pc = "send"
    /\ conn \in {"closed", "failed"}
    /\ exc' = "ConnectionClosed"
    /\ pc' = "closing"
    /\ UNCHANGED <<inputs, recorder, i, result, summary, golden, read_task,
                   conn, sent, recvLog, textSeen, elapsed, exit_code>>

\* asyncio.sleep of a wait step returns
Wait ==
    /\ pc = "wait"
    /\ elapsed' = elapsed + Get(steps[i + 1], "ms", DefaultWaitMs)
    /\ i' = i + 1
    /\ pc' = "loop"
    /\ UNCHANGED <<inputs, recorder, result, summary, golden, exc, read_task,
                   conn, sent, recvLog, textSeen, exit_code>>

\* asyncio.sleep(0.5) of a drain step returns
Drain ==
    /\ pc = "drain"
    /\ elapsed' = elapsed + DrainMs
    /\ i' = i + 1
    /\ pc' = "loop"
    /\ UNCHANGED <<inputs, recorder, result, summary, golden, exc, read_task,
                   conn, sent, recvLog, textSeen, exit_code>>

\* the await of the cancelled reader letting its CancelledError through
CancelReader_surfaces ==
    /\ pc = "final_drain"
    /\ elapsed' = elapsed + FinalDrainMs
    /\ read_task' = IF read_task = "running" THEN "cancelled" ELSE read_task
    /\ exc' = IF read_task \in {"raised", "running"} THEN "ReadError" ELSE exc
    /\ pc' = "closing"
    /\ UNCHANGED <<inputs, recorder, i, result, summary, golden, conn, sent,
                   recvLog, textSeen, exit_code>>

(***************************************************************************)
(* Lines 224-230: the final drain returns, the reader is cancelled and     *)
(* awaited.  A running reader ends cancelled (CancelledError is caught); a *)
(* reader that ended on ConnectionClosed is simply done; the exception of  *)
(* a reader that raised is raised again by await read_task.                *)
(***************************************************************************)
CancelReader ==
    /\ pc = "final_drain"
    /\ elapsed' = elapsed + FinalDrainMs
    /\ read_task' = IF read_task = "running" THEN "cancelled" ELSE read_task
    /\ exc' = IF read_task = "raised" THEN "ReadError" ELSE exc
    /\ pc' = "closing"
    /\ UNCHANGED <<inputs, recorder, i, result, summary, golden, conn, sent,
                   recvLog, textSeen, exit_code>>

(***************************************************************************)
(* The async-with block is left (normally or by exc): the connection is    *)
(* closed, and an exception reaches the except clause (lines 232-235).     *)
(***************************************************************************)
Closing ==
    /\ pc = "closing"
    /\ conn' = IF conn = "open" THEN "closed" ELSE conn
    /\ IF exc = ""
       THEN UNCHANGED <<result, recorder>>
       ELSE /\ result' = Handled(result, exc)
            /\ recorder' = emit(recorder, "error", [message |-> Message(exc)])
    /\ exc' = ""
    /\ pc' = "summary"
    /\ UNCHANGED <<inputs, i, summary, golden, read_task, sent, recvLog,
                   textSeen, elapsed, exit_code>>

\* taking the summary and dropping the chunks that were joined for it
TakeSummary_consumes ==
    /\ pc = "summary"
    /\ summary' = <<summary_of(recorder)>>
    /\ recorder' = [recorder EXCEPT !.output_chunks = <<>>]
    /\ pc' = "golden"
    /\ UNCHANGED <<inputs, i, result, golden, exc, read_task, conn,
                   sent, recvLog, textSeen, elapsed, exit_code>>

(***************************************************************************)
(* Lines 237-273: the summary, the golden comparison, run_end.             *)
(***************************************************************************)
TakeSummary ==
    /\ pc = "summary"
    /\ summary' = <<summary_of(recorder)>>
    /\ pc' = "golden"
    /\ UNCHANGED <<inputs, recorder, i, result, golden, exc, read_task, conn,
                   sent, recvLog, textSeen, elapsed, exit_code>>

\* the comparison failing the run on a different frame count as well
GoldenResult_checks_frames(res, s, g) ==
    LET expected_checksum == Get(g, "checksum_chain", <<>>)
    IN  IF \/ expected_checksum # <<>> /\ expected_checksum # s.checksum_chain
           \/ Get(g, "frames", s.frames) # s.frames
        THEN [res EXCEPT !.outcome = "fail",
                         !.errors = Append(@, [text |-> "Golden checksum mismatch",
                                               args |-> <<expected_checksum,
                                                          s.checksum_chain>>])]
        ELSE res

\* the comparison failing the run without an error message
GoldenResult_no_message(res, s, g) ==
    LET expected_checksum == Get(g, "checksum_chain", <<>>)
    IN  IF expected_checksum # <<>> /\ expected_checksum # s.checksum_chain
        THEN [res EXCEPT !.outcome = "fail"]
        ELSE res

\* lines 246-251: the result after the comparison with the golden object g
GoldenResult(res, s, g) ==
    LET expected_checksum == Get(g, "checksum_chain", <<>>)
    IN  IF expected_checksum # <<>> /\ expected_checksum # s.checksum_chain
        THEN [res EXCEPT !.outcome = "fail",
                         !.errors = Append(@, [text |-> "Golden checksum mismatch",
                                               args |-> <<expected_checksum,
                                                          s.checksum_chain>>])]
        ELSE res

GoldenEvent_compares_output(r, s, g) ==
    LET expected_checksum == Get(g, "checksum_chain", <<>>)
    IN  IF expected_checksum # <<>> /\ expected_checksum # s.output_sha256
        THEN emit(r, "golden_mismatch",
                  [ expected        |-> expected_checksum,
                    actual          |-> s.checksum_chain,
                    frames_expected |-> Get(g, "frames", -1),
                    frames_actual   |-> s.frames ])
        ELSE emit(r, "golden_match",
                  [ checksum |-> s.checksum_chain, frames |-> s.frames ])

\* lines 252-262: the event of the comparison with the golden object g
GoldenEvent(r, s, g) ==
    LET expected_checksum == Get(g, "checksum_chain", <<>>)
    IN  IF expected_checksum # <<>> /\ expected_checksum # s.checksum_chain
        THEN emit(r, "golden_mismatch",
                  [ expected        |-> expected_checksum,
                    actual          |-> s.checksum_chain,
                    frames_expected |-> Get(g, "frames", -1),
                    frames_actual   |-> s.frames ])
        ELSE emit(r, "golden_match",
                  [ checksum |-> s.checksum_chain, frames |-> s.frames ])

\* lines 242-262.  json.load raises on a file that holds no JSON: the
\* exception leaves run_session
GoldenCompare ==
    /\ pc = "golden"
    /\ \E g \in GoldenFiles(summary[1]) :
         /\ golden' = g
         /\ CASE g.kind = "absent" ->
                   /\ pc' = "run_end"
                   /\ UNCHANGED <<result, recorder, exc>>
              [] g.kind = "malformed" ->
                   /\ pc' = "raised"
                   /\ exc' = "JSONDecodeError"
                   /\ UNCHANGED <<result, recorder>>
              [] OTHER ->
                   /\ result' = GoldenResult(result, summary[1], g)
                   /\ recorder' = GoldenEvent(recorder, summary[1], g)
                   /\ pc' = "run_end"
                   /\ exc' = exc
    /\ UNCHANGED <<inputs, i, summary, read_task, conn, sent, recvLog,
                   textSeen, elapsed, exit_code>>

\* lines 264-273
RunEnd ==
    /\ pc = "run_end"
    /\ recorder' = emit(recorder, "run_end",
                        [ outcome        |-> result.outcome,
                          ws_in_bytes    |-> summary[1].ws_in_bytes,
                          ws_out_bytes   |-> summary[1].ws_out_bytes,
                          frames         |-> summary[1].frames,
                          output_sha256  |-> summary[1].output_sha256,
                          checksum_chain |-> summary[1].checksum_chain ])
    /\ pc' = "returned"
    /\ UNCHANGED <<inputs, i, result, summary, golden, exc, read_task, conn,
                   sent, recvLog, textSeen, elapsed, exit_code>>

(***************************************************************************)
(* main after run_session (lines 320-331).  asyncio.run cancels a reader   *)
(* task that is still pending; the finally clause closes the recorder; the *)
(* exit status is 0 for outcome pass, 1 otherwise and after an exception.  *)
(***************************************************************************)
MainExit ==
    /\ pc \in {"returned", "raised"}
    /\ read_task' = IF read_task = "running" THEN "cancelled" ELSE read_task
    /\ recorder' = close(recorder)
    /\ exit_code' = IF pc = "returned" /\ result.outcome = "pass" THEN 0 ELSE 1
    /\ pc' = "exited"
    /\ UNCHANGED <<inputs, i, result, summary, golden, exc, conn, sent,
                   recvLog, textSeen, elapsed>>

(***************************************************************************)
(* _read_loop (lines 276-283) and the endpoint.  The reader runs only      *)
(* while run_session is suspended.                                         *)
(***************************************************************************)
AwaitPoints == {"delay", "send", "wait", "drain", "final_drain", "closing"}

ReaderRuns == read_task = "running" /\ pc \in AwaitPoints

\* a binary message arrives: record_output
RecvBinary ==
    /\ ReaderRuns
    /\ Len(recvLog) + textSeen < MaxMessages
    /\ \E data \in NextChunks(recvLog) :
         /\ recvLog' = Append(recvLog, data)
         /\ recorder' = record_output(recorder, data)
    /\ UNCHANGED <<inputs, pc, i, result, summary, golden, exc, read_task,
                   conn, sent, textSeen, elapsed, exit_code>>

\* a text message recorded as output, encoded
RecvText_records ==
    /\ ReaderRuns
    /\ Len(recvLog) + textSeen < MaxMessages
    /\ textSeen' = textSeen + 1
    /\ recorder' = record_output(recorder, <<116>>)
    /\ UNCHANGED <<inputs, pc, i, result, summary, golden, exc,
                   read_task, conn, sent, recvLog, elapsed, exit_code>>

\* a text message arrives: it is no bytes object, nothing is recorded
RecvText ==
    /\ ReaderRuns
    /\ Len(recvLog) + textSeen < MaxMessages
    /\ textSeen' = textSeen + 1
    /\ UNCHANGED <<inputs, recorder, pc, i, result, summary, golden, exc,
                   read_task, conn, sent, recvLog, elapsed, exit_code>>

\* the connection is lost: from now on ws.send raises ConnectionClosed and
\* the iteration over ws raises ConnectionClosedError.  (A regular close by
\* the endpoint differs only in that the iteration ends without raising;
\* _read_loop returns in both cases.)
ConnectionLost ==
    /\ conn = "open"
    /\ pc \in AwaitPoints
    /\ conn' = "failed"
    /\ UNCHANGED <<inputs, recorder, pc, i, result, summary, golden, exc,
                   read_task, sent, recvLog, textSeen, elapsed, exit_code>>

\* the iteration over ws ends or raises ConnectionClosed, which is caught:
\* the reader task is done
ReaderClosed ==
    /\ ReaderRuns
    /\ conn \in {"closed", "failed"}
    /\ read_task' = "closed"
    /\ UNCHANGED <<inputs, recorder, pc, i, result, summary, golden, exc,
                   conn, sent, recvLog, textSeen, elapsed, exit_code>>

\* the iteration over ws raises an exception that is no ConnectionClosed:
\* the reader task ends with it
ReaderRaise ==
    /\ ReaderRuns
    /\ read_task' = "raised"
    /\ UNCHANGED <<inputs, recorder, pc, i, result, summary, golden, exc,
                   conn, sent, recvLog, textSeen, elapsed, exit_code>>

Next ==
    \/ Main
    \/ RunStart
    \/ ConnectOk
    \/ ConnectFail
    \/ Loop
    \/ Delay
    \/ Effect
    \/ SendDone
    \/ SendRaise
    \/ Wait
    \/ Drain
    \/ CancelReader
    \/ Closing
    \/ TakeSummary
    \/ GoldenCompare
    \/ RunEnd
    \/ MainExit
    \/ RecvBinary
    \/ RecvText
    \/ ConnectionLost
    \/ ReaderClosed
    \/ ReaderRaise

Spec == Init /\ [][Next]_vars

(***************************************************************************)
(* Two executions of main in a row: the same scenario and environment, an  *)
(* endpoint that delivers the same chunks, the first execution made        *)
(* without a golden file.                                                  *)
(***************************************************************************)
RerunScenarios ==
    { WellFormed(SubSeq(Script, w[1], w[2])) :
        w \in {<<1, 1>>, <<1, 2>>, <<3, 3>>, <<5, 5>>} }

InitRerun ==
    /\ scenario \in RerunScenarios
    /\ deterministic = TRUE
    /\ seed \in {42}
    /\ jsonl_path = FALSE
    /\ runNo = 1
    /\ prev = <<>>
    /\ NoOther
    /\ Fresh

Rerun ==
    /\ pc = "exited"
    /\ runNo = 1
    /\ summary # <<>>
    /\ golden.kind = "absent"
    /\ prev' = << [ events  |-> recorder.events,
                    chunks  |-> recvLog,
                    summary |-> summary[1],
                    result  |-> result ] >>
    /\ runNo' = 2
    /\ recorder' = BlankRecorder
    /\ pc' = "main"
    /\ i' = 0
    /\ result' = NoResult
    /\ summary' = <<>>
    /\ golden' = [kind |-> "absent"]
    /\ exc' = ""
    /\ read_task' = "none"
    /\ conn' = "none"
    /\ sent' = <<>>
    /\ recvLog' = <<>>
    /\ textSeen' = 0
    /\ elapsed' = 0
    /\ exit_code' = -1
    /\ UNCHANGED <<scenario, deterministic, seed, jsonl_path, other, otherLog>>

NextRerun == Next \/ Rerun

SpecRerun == InitRerun /\ [][NextRerun]_vars

(***************************************************************************)
(* Two recorders side by side: each is constructed (lines 73-86) and then  *)
(* given chunks by record_output, one chunk a step, to compare the chains  *)
(* of any two chunk sequences.                                             *)
(***************************************************************************)
\* the chunks fed: two that split "abc" as a|bc and two that split it ab|c
FeedChunks == Chunks \cup { <<97, 98>>, <<99>> }

InitChain ==
    /\ scenario = WellFormed(<<>>)
    /\ deterministic = TRUE
    /\ seed \in {42}
    /\ jsonl_path = FALSE
    /\ runNo = 1
    /\ prev = <<>>
    /\ recorder = NewRecorder(make_run_id(seed), scenario.name, jsonl_path)
    /\ other = NewRecorder(make_run_id(seed), scenario.name, jsonl_path)
    /\ recvLog = <<>>
    /\ pc = "main"
    /\ i = 0
    /\ result = NoResult
    /\ summary = <<>>
    /\ golden = [kind |-> "absent"]
    /\ exc = ""
    /\ read_task = "none"
    /\ conn = "none"
    /\ sent = <<>>
    /\ textSeen = 0
    /\ elapsed = 0
    /\ exit_code = -1
    /\ otherLog = <<>>

FeedFirst ==
    /\ Len(recvLog) < MaxFeed
    /\ \E data \in FeedChunks :
         /\ recorder' = record_output(recorder, data)
         /\ recvLog' = Append(recvLog, data)
    /\ UNCHANGED <<scenario, deterministic, seed, jsonl_path, runNo, prev, pc,
                   i, result, summary, golden, exc, read_task, conn, sent,
                   textSeen, elapsed, exit_code, other, otherLog>>

FeedSecond ==
    /\ Len(otherLog) < MaxFeed
    /\ \E data \in FeedChunks :
         /\ other' = record_output(other, data)
         /\ otherLog' = Append(otherLog, data)
    /\ UNCHANGED <<scenario, deterministic, seed, jsonl_path, runNo, prev, pc,
                   i, result, summary, golden, exc, read_task, conn, sent,
                   textSeen, elapsed, exit_code, recorder, recvLog>>

NextChain == FeedFirst \/ FeedSecond

SpecChain == InitChain /\ [][NextChain]_vars

(***************************************************************************)
(* Properties.                                                             *)
(***************************************************************************)
EventTypes(evs) == [k \in 1..Len(evs) |-> evs[k].type]

CountType(evs, t) == Cardinality({k \in 1..Len(evs) : evs[k].type = t})

\* the scenario's timeout in milliseconds
TimeoutMs == 1000 * Get(scenario, "timeout_s", DefaultTimeoutS)

\* the reader met an abnormal closure of the connection (ConnectionClosedError)
ReaderSawFailure == conn = "failed" /\ read_task = "closed"

\* a send raised ConnectionClosed
SendFailed == \E k \in 1..Len(result.errors) : result.errors[k].text = "ConnectionClosed"

\* C1: in every state the frame index is the number of chunks passed to
\* record_output so far and the output byte counter is their total length,
\* and neither of the two ever decreases in a step.
C1_Counters ==
    /\ [](/\ recorder.frame_idx = Len(recvLog)
          /\ recorder.total_ws_out = SumLen(recvLog))
    /\ [][/\ recorder'.frame_idx >= recorder.frame_idx
          /\ recorder'.total_ws_out >= recorder.total_ws_out]_vars

C1_Witness ==
    /\ pc = "returned"
    /\ recorder.frame_idx = 2
    /\ recorder.total_ws_out = 3

\* C2: the chain starts at 64 characters "0"; in every state it is the left
\* fold of chain' = H(chain || H(chunk)) over the chunks received, in their
\* order; and a step changes the chain only when exactly one more chunk is
\* received in it (no emit, record_send, summary, close or driver step does).
C2_Chain ==
    /\ [](recorder.checksum_chain = FoldChain([k \in 1..64 |-> 48], recvLog))
    /\ [][recorder'.checksum_chain # recorder.checksum_chain
            => /\ Len(recvLog') = Len(recvLog) + 1
               /\ SubSeq(recvLog', 1, Len(recvLog)) = recvLog]_vars

C2_Witness ==
    /\ pc = "exited"
    /\ Len(recvLog) = 2
    /\ recvLog[1] # recvLog[2]
    /\ recorder.total_ws_in > 0
    /\ recorder.checksum_chain # [k \in 1..64 |-> 48]

ConnectFailed ==
    conn = "none" /\ pc \in {"summary", "golden", "run_end", "returned", "raised", "exited"}

\* C4: when the connection cannot be opened the outcome is fail, the connect
\* error is the first of errors, the log begins env, run_start, error (the
\* error event carrying the connect error), and no step is executed: nothing
\* is sent, no input, resize or frame event exists.
C4_ConnectFailure ==
    ConnectFailed =>
        /\ result.outcome = "fail"
        /\ result.errors # <<>>
        /\ result.errors[1] = Message("connect failed")
        /\ Len(recorder.events) >= 3
        /\ SubSeq(EventTypes(recorder.events), 1, 3) = <<"env", "run_start", "error">>
        /\ recorder.events[3].message = Message("connect failed")
        /\ i = 0
        /\ sent = <<>>
        /\ \A k \in 1..Len(recorder.events) :
              recorder.events[k].type \notin {"input", "resize", "frame"}

C4_Witness ==
    /\ pc = "returned"
    /\ conn = "none"
    /\ Len(steps) = 2
    /\ result.outcome = "fail"

\* C5: once run_session has ended, by returning or otherwise, the log of a
\* run that emitted run_start holds exactly one run_end, as its last event.
C5_RunEndOnce ==
    (pc \in {"returned", "raised", "exited"} /\ CountType(recorder.events, "run_start") > 0)
    => /\ CountType(recorder.events, "run_end") = 1
       /\ recorder.events[Len(recorder.events)].type = "run_end"

\* C6: when a golden record was compared, exactly one of golden_match and
\* golden_mismatch is in the log; golden_match only with the record's chain
\* equal to the run's full chain; golden_mismatch with outcome fail and
\* both chains and both frame counts in the event.
C6_GoldenVerdict ==
    (/\ pc \in {"run_end", "returned", "exited"}
     /\ golden.kind = "object"
     /\ {"checksum_chain", "frames"} \subseteq DOMAIN golden)
    => LET evs == recorder.events
           last == evs[IF pc = "run_end" THEN Len(evs) ELSE Len(evs) - 1]
       IN  /\ CountType(evs, "golden_match") + CountType(evs, "golden_mismatch") = 1
           /\ last.type \in {"golden_match", "golden_mismatch"}
           /\ last.type = "golden_match"
                => golden.checksum_chain = summary[1].checksum_chain
           /\ last.type = "golden_mismatch"
                => /\ result.outcome = "fail"
                   /\ last.expected = golden.checksum_chain
                   /\ last.actual = summary[1].checksum_chain
                   /\ last.frames_expected = golden.frames
                   /\ last.frames_actual = summary[1].frames

\* C7: in deterministic mode, a second execution of the same scenario with
\* the same seed, in which the endpoint delivered the same chunks and which,
\* like the first, met no error, leaves the same event log as the first.
C7_Determinism ==
    (/\ runNo = 2
     /\ pc = "returned"
     /\ deterministic
     /\ golden.kind = "absent"
     /\ recvLog = prev[1].chunks
     /\ result.errors = <<>>
     /\ prev[1].result.errors = <<>>)
    => recorder.events = prev[1].events

\* C8: no step is executed once the sleeps of the run have taken longer than
\* timeout_s, and a run that took longer returns outcome fail with a timeout
\* error in errors.
C8_Timeout ==
    /\ pc = "effect" => elapsed <= TimeoutMs
    /\ (pc = "returned" /\ elapsed > TimeoutMs)
         => /\ result.outcome = "fail"
            /\ \E k \in 1..Len(result.errors) : result.errors[k].text = "timeout"

\* C9: with a malformed scenario no connection attempt is made (the run
\* never gets to websockets.connect), no step is executed and nothing is sent.
C9_MalformedAborts ==
    Malformed(scenario) =>
        /\ pc \in {"main", "aborted", "start"}
        /\ conn = "none"
        /\ i = 0
        /\ sent = <<>>

\* C10: when run_session has ended on a run without golden file, it has
\* returned; a connect failure, a failure of the connection met by the
\* reader, an exception of the reader or an overrun of timeout_s has left a
\* message in errors; and every message in errors is in the log as an event
\* of type error.
C10_FailuresRecorded ==
    (pc \in {"returned", "raised"} /\ golden.kind = "absent")
    => /\ pc = "returned"
       /\ (conn = "none" \/ ReaderSawFailure \/ read_task = "raised" \/ elapsed > TimeoutMs)
            => result.errors # <<>>
       /\ \A k \in 1..Len(result.errors) :
            \E e \in 1..Len(recorder.events) :
               /\ recorder.events[e].type = "error"
               /\ recorder.events[e].message = result.errors[k]

\* the end of the scenario was reached and the reader, still running, was
\* cancelled there (lines 226-230)
ReaderCancelled ==
    /\ read_task = "cancelled"
    /\ pc \in {"closing", "summary", "golden", "run_end", "returned"}

\* C11: when the connection opened, every step was carried out, the reader
\* was cancelled at the end of the scenario and no golden record is given,
\* the cancellation is no error: no exception is pending, the outcome is
\* pass, errors is empty and the log holds no error event, whatever the
\* reader received before.
C11_CancelIsClean ==
    (ReaderCancelled /\ golden.kind = "absent") =>
        /\ conn # "none"
        /\ i = Len(steps)
        /\ exc = ""
        /\ result.outcome = "pass"
        /\ result.errors = <<>>
        /\ CountType(recorder.events, "error") = 0

C11_Witness ==
    /\ pc = "returned"
    /\ read_task = "cancelled"
    /\ golden.kind = "absent"
    /\ Len(recvLog) = 2
    /\ Len(sent) = 2
    /\ result.outcome = "pass"

\* the second execution has compared its summary with the golden record
\* saved from the first one, after receiving the same chunks as the first
SecondRunCompared ==
    /\ runNo = 2
    /\ pc \in {"run_end", "returned"}
    /\ golden.kind = "object"
    /\ golden.checksum_chain = prev[1].summary.checksum_chain
    /\ recvLog = prev[1].chunks

C13_ChainSensitive ==
    (recvLog = otherLog) <=> (final_checksum(recorder) = final_checksum(other))

\* the same two chunks in the two orders, or the same output split differently
C13_Witness ==
    /\ Len(recvLog) = 2
    /\ Len(otherLog) = 2
    /\ recvLog # otherLog
    /\ \/ recvLog = <<otherLog[2], otherLog[1]>>
       \/ Concat(recvLog) = Concat(otherLog)
    /\ final_checksum(recorder) # final_checksum(other)

\* the golden record g has the chain of the summary s and another frame count
SameChainOtherFrames(g, s) ==
    /\ g.kind = "object"
    /\ Get(g, "checksum_chain", <<>>) = s.checksum_chain
    /\ "frames" \in DOMAIN g
    /\ g.frames # s.frames

\* C14: a comparison with a golden record whose checksum_chain is the run's
\* and whose frames count is not leaves the result as it was, outcome and
\* errors, and appends exactly one event, golden_match, to the log.
C14_FramesNotCompared ==
    [][(pc = "golden" /\ pc' # "golden" /\ SameChainOtherFrames(golden', summary[1]))
         => /\ pc' = "run_end"
            /\ result' = result
            /\ Len(recorder'.events) = Len(recorder.events) + 1
            /\ SubSeq(recorder'.events, 1, Len(recorder.events)) = recorder.events
            /\ recorder'.events[Len(recorder'.events)].type = "golden_match"]_vars

C14_Witness ==
    /\ pc = "returned"
    /\ SameChainOtherFrames(golden, summary[1])
    /\ summary[1].frames = 2
    /\ result.outcome = "pass"
    /\ CountType(recorder.events, "golden_match") = 1

\* C15: the step that takes the summary leaves the recorder's event list,
\* output chunks, byte counters, frame index and checksum chain (its whole
\* state) as they were, whatever that state is, and a summary taken again
\* right after it equals the one taken.
C15_SummaryReadsOnly ==
    [][summary' # summary /\ summary' # <<>>
         => /\ recorder'.events = recorder.events
            /\ recorder'.output_chunks = recorder.output_chunks
            /\ recorder'.total_ws_in = recorder.total_ws_in
            /\ recorder'.total_ws_out = recorder.total_ws_out
            /\ recorder'.frame_idx = recorder.frame_idx
            /\ recorder'.checksum_chain = recorder.checksum_chain
            /\ recorder' = recorder
            /\ summary'[1] = summary_of(recorder)
            /\ summary_of(recorder') = summary'[1]]_vars

C15_Witness ==
    /\ pc = "golden"
    /\ summary # <<>>
    /\ summary[1].frames = 2
    /\ summary[1].ws_in_bytes = 2
    /\ summary[1] = summary_of(recorder)

\* C16: once the summary has been taken the reader has stopped (it was
\* cancelled, or it ended by itself, or it was never started), the
\* recorder's summary stays the one that was taken (no record_output
\* follows), and the run_end event of a returned run carries the outcome of
\* the result and the frame count of the recorder.
C16_SummaryAfterReader ==
    summary # <<>> =>
        /\ read_task # "running"
        /\ summary[1] = summary_of(recorder)
        /\ pc = "returned" =>
              /\ recorder.events[Len(recorder.events)].type = "run_end"
              /\ recorder.events[Len(recorder.events)].outcome = result.outcome
              /\ recorder.events[Len(recorder.events)].frames = recorder.frame_idx

\* the input and resize events of the log, in log order
IsStepEvent(e) == e.type \in {"input", "resize"}

StepEvents == SelectSeq(recorder.events, IsStepEvent)

\* the step loop has been left
LoopLeft == pc \in {"final_drain", "closing", "summary", "golden", "run_end",
                    "returned", "raised", "exited"}

\* C17: steps take effect in scenario order.  In every state the input and
\* resize events correspond one to one, in order, to the messages
\* transmitted, carry strictly increasing step indices of steps already
\* passed, and stand in the log between run_start and the closing events
\* with nothing but frame events among them.  In every step the index of
\* the current step stays or grows by one, a transmission is that of the
\* current step and moves on to the next, and once the loop has been left
\* (at the end or by a failing step) no step is executed any more.
C17_StepOrder ==
    /\ [](/\ Len(StepEvents) = Len(sent)
          /\ \A k \in 1..Len(StepEvents) :
                /\ StepEvents[k].step < i
                /\ sent[k] = Outgoing(steps[StepEvents[k].step + 1])
                /\ (StepEvents[k].type = "input") <=> (sent[k].kind = "binary")
                /\ k > 1 => StepEvents[k - 1].step < StepEvents[k].step
          /\ \A a, b \in 1..Len(recorder.events) :
                (a < b /\ IsStepEvent(recorder.events[b]))
                    => recorder.events[a].type \in {"env", "run_start", "frame",
                                                    "input", "resize"})
    /\ [][/\ i' \in {i, i + 1}
          /\ sent' # sent => /\ pc = "send"
                             /\ sent' = Append(sent, Outgoing(steps[i + 1]))
                             /\ i' = i + 1
          /\ LoopLeft => i' = i /\ sent' = sent /\ StepEvents' = StepEvents]_vars

\* a send, a frame and a resize, in this order, in a run that returned
C17_Witness ==
    /\ pc = "returned"
    /\ Len(StepEvents) = 2
    /\ StepEvents[1].type = "input" /\ StepEvents[1].step = 0
    /\ StepEvents[2].type = "resize" /\ StepEvents[2].step = 1
    /\ \E k \in 1..Len(recorder.events) - 2 :
          SubSeq(EventTypes(recorder.events), k, k + 2) = <<"input", "frame", "resize">>

\* the total length of the binary messages among ms
RECURSIVE BinaryLen(_)
BinaryLen(ms) ==
    IF ms = <<>> THEN 0
    ELSE (IF Head(ms).kind = "binary" THEN Len(Head(ms).data) ELSE 0) + BinaryLen(Tail(ms))

\* C18: the input byte counter is the total length of the chunks given to
\* record_send, i.e. of the binary messages transmitted; and the step in
\* which record_send is called for a chunk adds the chunk's length to the
\* input byte counter and leaves the checksum chain, the frame index, the
\* output byte counter and the output chunks as they were, the event list
\* growing by nothing but the input event the driver emits after the call.
C18_RecordSend ==
    /\ [](recorder.total_ws_in = BinaryLen(sent))
    /\ [][(pc = "send" /\ pc' = "loop" /\ steps[i + 1].type = "send")
            => LET data == sent'[Len(sent')].data
               IN  /\ recorder'.total_ws_in = recorder.total_ws_in + Len(data)
                   /\ recorder'.checksum_chain = recorder.checksum_chain
                   /\ recorder'.frame_idx = recorder.frame_idx
                   /\ recorder'.total_ws_out = recorder.total_ws_out
                   /\ recorder'.output_chunks = recorder.output_chunks
                   /\ Len(recorder'.events) = Len(recorder.events) + 1
                   /\ SubSeq(recorder'.events, 1, Len(recorder.events)) = recorder.events
                   /\ recorder'.events[Len(recorder'.events)].type = "input"
                   /\ recorder'.events[Len(recorder'.events)].bytes = Len(data)]_vars
    /\ [][recorder'.total_ws_in # recorder.total_ws_in
            => pc = "send" /\ steps[i + 1].type = "send"]_vars

\* a chunk of two bytes was sent after a frame had been received
C18_Witness ==
    /\ pc = "loop"
    /\ sent # <<>>
    /\ sent[Len(sent)].kind = "binary"
    /\ Len(sent[Len(sent)].data) = 2
    /\ recorder.total_ws_in = 2
    /\ recorder.frame_idx = 1
    /\ recorder.events[Len(recorder.events)].type = "input"

\* C19: the step in which the reader receives a text message leaves the
\* recorder as it was: its events (no frame event is added), frame index,
\* output byte counter, output chunks and checksum chain; and in every
\* state the output chunks are the binary chunks received and the log
\* holds one frame event for each of them, however many text messages came.
C19_TextIgnored ==
    /\ [][textSeen' # textSeen
            => /\ recorder'.events = recorder.events
               /\ recorder'.frame_idx = recorder.frame_idx
               /\ recorder'.total_ws_out = recorder.total_ws_out
               /\ recorder'.output_chunks = recorder.output_chunks
               /\ recorder'.checksum_chain = recorder.checksum_chain
               /\ recorder' = recorder]_vars
    /\ [](/\ recorder.output_chunks = recvLog
          /\ CountType(recorder.events, "frame") = Len(recvLog))

\* a run that returned after receiving one binary chunk and one text message
C19_Witness ==
    /\ pc = "returned"
    /\ textSeen = 1
    /\ Len(recvLog) = 1
    /\ recorder.frame_idx = 1
    /\ CountType(recorder.events, "frame") = 1

\* C20: from the moment the result exists, and so at the end of every run,
\* its outcome is fail exactly when its errors list is not empty; a step
\* that turns the outcome to fail appends an error message, a step that
\* appends an error message leaves the outcome fail, and the outcome never
\* returns to pass.
C20_FailIffErrors ==
    /\ [](result.outcome # "none"
            => /\ result.outcome \in {"pass", "fail"}
               /\ (result.outcome = "fail") <=> (result.errors # <<>>))
    /\ [][/\ (result.outcome = "pass" /\ result'.outcome = "fail")
              => Len(result'.errors) = Len(result.errors) + 1
          /\ result'.errors # result.errors
              => /\ result'.outcome = "fail"
                 /\ Len(result'.errors) = Len(result.errors) + 1
                 /\ SubSeq(result'.errors, 1, Len(result.errors)) = result.errors
          /\ result.outcome = "fail" => result'.outcome = "fail"]_vars

\* a run that failed twice: in a step or send, and in the golden comparison
C20_Witness ==
    /\ pc = "returned"
    /\ result.outcome = "fail"
    /\ Len(result.errors) = 2
    /\ result.errors[2].text = "Golden checksum mismatch"
    /\ CountType(recorder.events, "error") = 1

\* the frame events of the log, in log order
IsFrameEvent(e) == e.type = "frame"

FrameEvents == SelectSeq(recorder.events, IsFrameEvent)

\* the number a string of decimal digits denotes
RECURSIVE DigitsValue(_)
DigitsValue(ds) ==
    IF ds = <<>> THEN 0
    ELSE 10 * DigitsValue(SubSeq(ds, 1, Len(ds) - 1)) + (ds[Len(ds)] - 48)

\* the milliseconds of a deterministic timestamp "T" digits
TimestampMs(ts) == DigitsValue(Tail(ts))

\* the frame index at the emission of the k-th event of the log: the number
\* of frame events among the first k (record_output counts the frame
\* before it emits its event)
FrameIdxAt(k) == CountType(SubSeq(recorder.events, 1, k), "frame")

\* C21: in every state the log holds exactly frame_idx frame events, the
\* k-th of them carrying frame_idx k; in deterministic mode every event's
\* timestamp is "T" followed by the decimal digits of the frame index at
\* its emission times the time step, so that the timestamps never decrease
\* along the log; and every step leaves the events already logged in place,
\* only appending to them.
C21_FrameLog ==
    /\ [](/\ Len(FrameEvents) = recorder.frame_idx
          /\ \A k \in 1..Len(FrameEvents) : FrameEvents[k].frame_idx = k
          /\ deterministic =>
                /\ \A k \in 1..Len(recorder.events) :
                      /\ Head(recorder.events[k].timestamp) = 84
                      /\ TimestampMs(recorder.events[k].timestamp)
                            = FrameIdxAt(k) * TimeStepMs
                /\ \A k \in 2..Len(recorder.events) :
                      TimestampMs(recorder.events[k - 1].timestamp)
                         <= TimestampMs(recorder.events[k].timestamp))
    /\ [][/\ Len(recorder'.events) >= Len(recorder.events)
          /\ SubSeq(recorder'.events, 1, Len(recorder.events)) = recorder.events]_vars

\* a deterministic run in which the stepper logged an input event between
\* the reader's two frame events
C21_Witness ==
    /\ deterministic
    /\ pc = "returned"
    /\ recorder.frame_idx = 2
    /\ \E k \in 1..Len(recorder.events) - 2 :
          /\ SubSeq(EventTypes(recorder.events), k, k + 2) = <<"frame", "input", "frame">>
          /\ TimestampMs(recorder.events[k + 1].timestamp) = TimeStepMs
          /\ recorder.events[k + 2].frame_idx = 2

====
